---- MODULE Spec2Model ----
(***************************************************************************)
(* The registry request handlers of pkg/registry/registry.go, one action   *)
(* per HTTP handler, over an abstract RegistryStore, and the pure          *)
(* Content-Range validator ParseAndCheckContentRange.                      *)
(***************************************************************************)
EXTENDS Integers, Sequences, FiniteSets, TLC

VARIABLES
    manifests,  \* RegistryStore: (name, reference) -> stored manifest or NoManifest
    blobs,      \* RegistryStore: (name, digest) -> stored blob metadata or NoBlob
    indexes,    \* RegistryStore: the repositories that have an index
    last,       \* the last request handled and the response it produced
    acked,      \* per (name, reference): the last manifest PUT the client saw succeed
    hdr,        \* ParseAndCheckContentRange: the (Content-Range, Content-Length) headers
    ret         \* ParseAndCheckContentRange: what the call returned

vars == <<manifests, blobs, indexes, last, acked, hdr, ret>>

-----------------------------------------------------------------------------
(* Request inputs *)

Names == {"n1"}
References == {"v1", "v2"}
\* the {digest} path variable: one well-formed digest, two malformed ones
DigestStrs == {"sha256:ab", "sha256:zz", ""}
ContentTypes == {"", "application/json"}
\* request bodies of PUT manifest: two JSON manifests and one undecodable body
ManifestBodies == {"{m1}", "{m2}", "not-json"}
Searches == {"", "n1"}
\* r.ContentLength of PUT blob: unknown (-1) or declared
ContentLengths == {-1, 5}

-----------------------------------------------------------------------------
(* HTTP status codes used by the handlers *)

StatusOK == 200
StatusCreated == 201
StatusAccepted == 202
StatusFound == 302
StatusTemporaryRedirect == 307
StatusNotFound == 404
StatusBadRequest == 400
StatusInternalServerError == 500

-----------------------------------------------------------------------------
(* Errors *)

Nil == [kind |-> "nil", status |-> 0, detail |-> ""]

\* errors the handlers construct (pkg/errors)
NewDigestInvalidError(digeststr) ==
    [kind |-> "DigestInvalid", status |-> StatusBadRequest, detail |-> digeststr]
NewContentTypeInvalidError(detail) ==
    [kind |-> "ContentTypeInvalid", status |-> StatusBadRequest, detail |-> detail]
NewManifestInvalidError(detail) ==
    [kind |-> "ManifestInvalid", status |-> StatusBadRequest, detail |-> detail]
NewIndexUnknownError(name) ==
    [kind |-> "IndexUnknown", status |-> StatusNotFound, detail |-> name]
NewManifestUnknownError(reference) ==
    [kind |-> "ManifestUnknown", status |-> StatusNotFound, detail |-> reference]
NewBlobUnknownError(digest) ==
    [kind |-> "BlobUnknown", status |-> StatusNotFound, detail |-> digest]

\* errors of the storage backend, which are not of the registry's taxonomy
S3NotFound == [kind |-> "S3NoSuchKey", status |-> 0, detail |-> "no such key"]
BackendError == [kind |-> "Backend", status |-> 0, detail |-> "connection reset"]

IsS3StorageNotFound(err) == err.kind = "S3NoSuchKey"

\* what the backend can do to one Store call: nothing (Nil), or fail it
Failures == {Nil, S3NotFound, BackendError}

-----------------------------------------------------------------------------
(* The response writer and the two responders *)

\* the handler's run: the response written so far, the responder calls made,
\* the Store calls made, and who read the request body
NewRun ==
    [status |-> 0, location |-> "", clen |-> "", ctype |-> "", cenc |-> "",
     body |-> <<>>, calls |-> <<>>, store |-> <<>>, reader |-> "nobody"]

\* http.ResponseWriter.WriteHeader: the first status written is the response's
SetStatus(rt, code) == IF rt.status = 0 THEN [rt EXCEPT !.status = code] ELSE rt

WriteHeader(rt, code) ==
    [SetStatus(rt, code) EXCEPT !.calls = Append(rt.calls, "WriteHeader")]

ResponseOK(rt, data) ==
    [SetStatus(rt, StatusOK) EXCEPT
        !.calls = Append(rt.calls, "ResponseOK"),
        !.body = Append(rt.body, [data |-> data, env |-> "ok"])]

ResponseError(rt, err) ==
    LET known == err.status # 0
        code == IF known THEN err.status ELSE StatusInternalServerError
        shown == IF known THEN err
                 ELSE [kind |-> "Unknown", status |-> code, detail |-> ""]
    IN [SetStatus(rt, code) EXCEPT
           !.calls = Append(rt.calls, "ResponseError"),
           !.body = Append(rt.body, [data |-> shown, env |-> "error"])]

-----------------------------------------------------------------------------
(* The RegistryStore *)

NoManifest == [ctype |-> "", manifest |-> "", present |-> FALSE]
NoBlob == [ctype |-> "", present |-> FALSE]
EmptyIndex == [manifests |-> {}, name |-> ""]

\* a Store call as the handler made it, with the Store's verdict
StoreCall(op, name, key, ctype, arg, err) ==
    [name |-> name, ctype |-> ctype, op |-> op, key |-> key, arg |-> arg,
     ok |-> err = Nil, verdict |-> err.kind]

Called(rt, op, name, key, ctype, arg, err) ==
    [rt EXCEPT !.store = Append(rt.store, StoreCall(op, name, key, ctype, arg, err))]

\* the backend's verdict on a call: the injected failure, else the Store's own
Store_Exists(name, reference, fail) ==
    IF fail # Nil THEN [err |-> fail, exist |-> FALSE]
    ELSE [err |-> Nil, exist |-> manifests[<<name, reference>>].present]

Store_GetManifest(name, reference, fail) ==
    IF fail # Nil THEN [err |-> fail, manifest |-> ""]
    ELSE IF ~manifests[<<name, reference>>].present
         THEN [err |-> NewManifestUnknownError(reference), manifest |-> ""]
         ELSE [err |-> Nil, manifest |-> manifests[<<name, reference>>].manifest]

Store_PutManifest(name, reference, contentType, manifest, fail) == [err |-> fail]

Store_DeleteManifest(name, reference, fail) ==
    IF fail # Nil THEN [err |-> fail]
    ELSE IF ~manifests[<<name, reference>>].present THEN [err |-> S3NotFound]
         ELSE [err |-> Nil]

Matches(name, search) == search = "" \/ search = name

Store_GetIndex(name, search, fail) ==
    IF fail # Nil THEN [err |-> fail, index |-> EmptyIndex]
    ELSE IF name \notin indexes THEN [err |-> S3NotFound, index |-> EmptyIndex]
         ELSE [err |-> Nil, index |-> [manifests |-> {k \in DOMAIN manifests :
                                           /\ k[1] = name
                                           /\ manifests[k].present
                                           /\ Matches(k[2], search)}, name |-> name]]

Store_RemoveIndex(name, fail) ==
    IF fail # Nil THEN [err |-> fail]
    ELSE IF name \notin indexes THEN [err |-> S3NotFound]
         ELSE [err |-> Nil]

Store_GetGlobalIndex(search, fail) ==
    IF fail # Nil THEN [err |-> fail, index |-> EmptyIndex]
    ELSE IF indexes = {} THEN [err |-> S3NotFound, index |-> EmptyIndex]
         ELSE [err |-> Nil,
               index |-> [manifests |-> {<<n, "">> : n \in {m \in indexes :
                                                   Matches(m, search)}},
                          name |-> ""]]

Store_ExistsBlob(repository, digest, fail) ==
    IF fail # Nil THEN [err |-> fail, ok |-> FALSE]
    ELSE [err |-> Nil, ok |-> blobs[<<repository, digest>>].present]

RedirectURL == "https://storage.example/presigned"
NoContent == [ContentLength |-> 0, ContentType |-> "", ContentEncoding |-> "", Content |-> ""]
BlobBytes == 5

\* the Store decides between serving the bytes and redirecting (mode)
Store_GetBlob(repository, digest, fail, mode) ==
    IF fail # Nil THEN [err |-> fail, Content |-> NoContent, RedirectLocation |-> ""]
    ELSE IF ~blobs[<<repository, digest>>].present
         THEN [err |-> NewBlobUnknownError(digest), Content |-> NoContent, RedirectLocation |-> ""]
         ELSE IF mode = "redirect"
              THEN [err |-> Nil, Content |-> NoContent, RedirectLocation |-> RedirectURL]
              ELSE [err |-> Nil, Content |-> [ContentLength |-> BlobBytes,
                                 ContentType |-> blobs[<<repository, digest>>].ctype,
                                 ContentEncoding |-> "",
                                 Content |-> "bytes"], RedirectLocation |-> ""]

\* the Store decides between consuming the stream and redirecting (mode)
Store_PutBlob(repository, digest, content, fail, mode) ==
    IF fail # Nil THEN [err |-> fail, RedirectLocation |-> ""]
    ELSE IF mode = "redirect" THEN [err |-> Nil, RedirectLocation |-> RedirectURL]
         ELSE [err |-> Nil, RedirectLocation |-> ""]

\* the Store's state after the calls a handler made
RECURSIVE ManifestsAfter(_, _)
ManifestsAfter(m, calls) ==
    IF calls = <<>> THEN m
    ELSE LET c == Head(calls)
             k == <<c.name, c.key>>
             m2 == IF ~c.ok THEN m
                   ELSE IF c.op = "PutManifest"
                        THEN [m EXCEPT ![k] = [ctype |-> c.ctype, manifest |-> c.arg,
                                               present |-> TRUE]]
                        ELSE IF c.op = "DeleteManifest"
                             THEN [m EXCEPT ![k] = NoManifest]
                             ELSE m
         IN ManifestsAfter(m2, Tail(calls))

RECURSIVE BlobsAfter(_, _)
BlobsAfter(b, calls) ==
    IF calls = <<>> THEN b
    ELSE LET c == Head(calls)
             b2 == IF c.ok /\ c.op = "PutBlob" /\ c.arg = "direct"
                   THEN [b EXCEPT ![<<c.name, c.key>>] =
                            [ctype |-> c.ctype, present |-> TRUE]]
                   ELSE b
         IN BlobsAfter(b2, Tail(calls))

RECURSIVE IndexesAfter(_, _)
IndexesAfter(ix, calls) ==
    IF calls = <<>> THEN ix
    ELSE LET c == Head(calls)
             ix2 == IF ~c.ok THEN ix
                    ELSE IF c.op = "PutManifest" THEN ix \cup {c.name}
                         ELSE IF c.op = "RemoveIndex" THEN ix \ {c.name}
                              ELSE ix
         IN IndexesAfter(ix2, Tail(calls))

-----------------------------------------------------------------------------
(* Request decoding *)

\* digest.Parse on the {digest} path variable
WellFormedDigests == {"sha256:ab"}
DigestParse(digeststr) ==
    IF digeststr \in WellFormedDigests THEN [digest |-> digeststr, err |-> Nil]
    ELSE [digest |-> "", err |-> [kind |-> "ErrDigestInvalidFormat", status |-> 0,
                                   detail |-> "invalid checksum digest format"]]

\* json.NewDecoder(r.Body).Decode(&manifest)
Decode(body) ==
    IF body = "{m1}" THEN [err |-> Nil, manifest |-> "m1"]
    ELSE IF body = "{m2}" THEN [err |-> Nil, manifest |-> "m2"]
         ELSE [err |-> [kind |-> "SyntaxError", status |-> 0,
                                          detail |-> "invalid character"], manifest |-> ""]

\* w.Header().Set: headers set after the status line was written are not sent
SetLocation(rt, v) == IF rt.status = 0 THEN [rt EXCEPT !.location = v] ELSE rt
SetContentHeaders(rt, c) ==
    IF rt.status = 0
    THEN [rt EXCEPT !.clen = ToString(c.ContentLength), !.ctype = c.ContentType,
                    !.cenc = c.ContentEncoding]
    ELSE rt
\* io.Copy(w, content): the bytes follow the headers; the first write commits 200
Copy(rt, bytes) ==
    [SetStatus(rt, StatusOK) EXCEPT !.body = Append(rt.body, [data |-> bytes, env |-> "raw"])]

-----------------------------------------------------------------------------
(* The handlers: each yields the run of one request *)

HeadManifest(name, reference, fail) ==
    LET r == Store_Exists(name, reference, fail)
        rt == Called(NewRun, "Exists", name, reference, "", "", r.err)
    IN IF r.err # Nil THEN ResponseError(rt, r.err)
       ELSE IF r.exist THEN WriteHeader(rt, StatusOK)
            ELSE WriteHeader(rt, StatusNotFound)

GetGlobalIndex(search, fail) ==
    LET r == Store_GetGlobalIndex(search, fail)
        rt == Called(NewRun, "GetGlobalIndex", "", "", "", search, r.err)
    IN IF r.err # Nil
       THEN LET rt2 == IF IsS3StorageNotFound(r.err) THEN ResponseOK(rt, EmptyIndex)
                       ELSE rt
            IN ResponseError(rt2, r.err)
       ELSE ResponseOK(rt, r.index)

\* a plausible slip: the store's not-found reaches the responder untranslated
GetIndexUntranslated(name, search, fail) ==
    LET r == Store_GetIndex(name, search, fail)
        rt == Called(NewRun, "GetIndex", name, "", "", search, r.err)
    IN IF r.err # Nil THEN ResponseError(rt, r.err)
       ELSE ResponseOK(rt, r.index)

GetIndex(name, search, fail) ==
    LET r == Store_GetIndex(name, search, fail)
        rt == Called(NewRun, "GetIndex", name, "", "", search, r.err)
    IN IF r.err # Nil
       THEN LET err == IF IsS3StorageNotFound(r.err) THEN NewIndexUnknownError(name)
                       ELSE r.err
            IN ResponseError(rt, err)
       ELSE ResponseOK(rt, r.index)

DeleteIndex(name, fail) ==
    LET r == Store_RemoveIndex(name, fail)
        rt == Called(NewRun, "RemoveIndex", name, "", "", "", r.err)
    IN IF r.err # Nil
       THEN LET err == IF IsS3StorageNotFound(r.err) THEN NewIndexUnknownError(name)
                       ELSE r.err
            IN ResponseError(rt, err)
       ELSE ResponseOK(rt, "ok")

GetManifest(name, reference, fail) ==
    LET r == Store_GetManifest(name, reference, fail)
        rt == Called(NewRun, "GetManifest", name, reference, "", "", r.err)
    IN IF r.err # Nil THEN ResponseError(rt, r.err)
       ELSE ResponseOK(rt, r.manifest)

\* a plausible slip: the declared content type is not forwarded to the Store
PutManifestDropsContentType(name, reference, body, contenttype, fail) ==
    LET d == Decode(body)
        rt0 == [NewRun EXCEPT !.reader = "handler"]
    IN IF d.err # Nil THEN ResponseError(rt0, NewManifestInvalidError(d.err.detail))
       ELSE LET r == Store_PutManifest(name, reference, "", d.manifest, fail)
                rt == Called(rt0, "PutManifest", name, reference, "", d.manifest, r.err)
            IN IF r.err # Nil THEN ResponseError(rt, r.err)
               ELSE WriteHeader(rt, StatusCreated)

PutManifest(name, reference, body, contenttype, fail) ==
    LET d == Decode(body)
        rt0 == [NewRun EXCEPT !.reader = "handler"]
    IN IF d.err # Nil THEN ResponseError(rt0, NewManifestInvalidError(d.err.detail))
       ELSE LET r == Store_PutManifest(name, reference, contenttype, d.manifest, fail)
                rt == Called(rt0, "PutManifest", name, reference, contenttype,
                             d.manifest, r.err)
            IN IF r.err # Nil THEN ResponseError(rt, r.err)
               ELSE WriteHeader(rt, StatusCreated)

DeleteManifest(name, reference, fail) ==
    LET r == Store_DeleteManifest(name, reference, fail)
        rt == Called(NewRun, "DeleteManifest", name, reference, "", "", r.err)
    IN IF r.err # Nil THEN ResponseError(rt, r.err)
       ELSE WriteHeader(rt, StatusAccepted)

\* a plausible slip: the parse error is ignored and the callback runs anyway
BlobDigestFunUnchecked(rt, digeststr) ==
    [digest |-> digeststr, rt |-> rt, run |-> TRUE]

\* run = whether the callback fun is invoked, and with which digest
BlobDigestFun(rt, digeststr) ==
    LET p == DigestParse(digeststr)
    IN IF p.err # Nil
       THEN [digest |-> "",
             rt |-> ResponseError(rt, NewDigestInvalidError(digeststr)),
             run |-> FALSE]
       ELSE [digest |-> p.digest, rt |-> rt, run |-> TRUE]

HeadBlob(repository, digeststr, fail) ==
    LET b == BlobDigestFun(NewRun, digeststr)
    IN IF ~b.run THEN b.rt
       ELSE LET r == Store_ExistsBlob(repository, b.digest, fail)
                rt == Called(b.rt, "ExistsBlob", repository, b.digest, "", "", r.err)
            IN IF r.err # Nil THEN ResponseError(rt, r.err)
               ELSE IF r.ok THEN WriteHeader(rt, StatusOK)
                    ELSE WriteHeader(rt, StatusNotFound)

\* a plausible slip: the Location header is set, but the status is 201 all the same
PutBlobAlwaysCreated(repository, digeststr, contentType, contentLength, fail, mode) ==
    LET b == BlobDigestFun(NewRun, digeststr)
    IN IF ~b.run THEN b.rt
       ELSE IF contentType = ""
            THEN ResponseError(b.rt, NewContentTypeInvalidError("empty"))
            ELSE LET content == [ContentLength |-> contentLength,
                                 ContentType |-> contentType,
                                 ContentEncoding |-> "", Content |-> "r.Body"]
                     r == Store_PutBlob(repository, b.digest, content, fail, mode)
                     rt == Called(b.rt, "PutBlob", repository, b.digest,
                                  content.ContentType, mode, r.err)
                 IN IF r.err # Nil THEN ResponseError(rt, r.err)
                    ELSE WriteHeader(SetLocation(rt, r.RedirectLocation), StatusCreated)

PutBlob(repository, digeststr, contentType, contentLength, fail, mode) ==
    LET b == BlobDigestFun(NewRun, digeststr)
    IN IF ~b.run THEN b.rt
       ELSE IF contentType = ""
            THEN ResponseError(b.rt, NewContentTypeInvalidError("empty"))
            ELSE LET content == [ContentLength |-> contentLength,
                                 ContentType |-> contentType,
                                 ContentEncoding |-> "", Content |-> "r.Body"]
                     r == Store_PutBlob(repository, b.digest, content, fail, mode)
                     rt == Called(b.rt, "PutBlob", repository, b.digest,
                                  content.ContentType, mode, r.err)
                 IN IF r.err # Nil THEN ResponseError(rt, r.err)
                    ELSE IF r.RedirectLocation # ""
                         THEN WriteHeader(SetLocation(rt, r.RedirectLocation),
                                          StatusTemporaryRedirect)
                         ELSE WriteHeader(rt, StatusCreated)

GetBlob(repository, digeststr, fail, mode) ==
    LET b == BlobDigestFun(NewRun, digeststr)
    IN IF ~b.run THEN b.rt
       ELSE LET r == Store_GetBlob(repository, b.digest, fail, mode)
                rt == Called(b.rt, "GetBlob", repository, b.digest, "", mode, r.err)
            IN IF r.err # Nil THEN ResponseError(rt, r.err)
               ELSE IF r.RedirectLocation # ""
                    THEN WriteHeader(SetLocation(rt, r.RedirectLocation), StatusFound)
                    ELSE Copy(WriteHeader(SetContentHeaders(rt, r.Content), StatusOK),
                              r.Content.Content)

-----------------------------------------------------------------------------
(* The registry: one action per handler *)

Request(h, n, k, ct, b, cl, q, f, m, run) ==
    [name |-> n, clen |-> cl, ctype |-> ct, body |-> b, rt |-> run, key |-> k,
     fail |-> f, search |-> q, mode |-> m, handler |-> h]

NoHeaders == [range |-> <<>>, length |-> <<>>]
NotCalled == [called |-> FALSE, start |-> 0, end |-> 0, reason |-> ""]

\* what the client knows of the manifests: a 201 to its PUT, a 202 to its DELETE
NoAck == [ctype |-> "", body |-> "", live |-> FALSE]
AckedAfter(a, req) ==
    IF req.handler = "PutManifest" /\ req.rt.status = StatusCreated
    THEN [a EXCEPT ![<<req.name, req.key>>] =
             [ctype |-> req.ctype, body |-> req.body, live |-> TRUE]]
    ELSE IF req.handler = "DeleteManifest" /\ req.rt.status = StatusAccepted
         THEN [a EXCEPT ![<<req.name, req.key>>] = NoAck]
         ELSE a

Init ==
    /\ manifests = [k \in Names \X References |-> NoManifest]
    /\ blobs = [k \in Names \X DigestStrs |-> NoBlob]
    /\ indexes = {}
    /\ last = Request("none", "", "", "", "", 0, "", Nil, "", NewRun)
    /\ acked = [k \in Names \X References |-> NoAck]
    /\ hdr = NoHeaders
    /\ ret = NotCalled

\* the handler returned: the Store holds what the handler's calls made of it
Served(req) ==
    /\ last' = req
    /\ acked' = AckedAfter(acked, req)
    /\ manifests' = ManifestsAfter(manifests, req.rt.store)
    /\ blobs' = BlobsAfter(blobs, req.rt.store)
    /\ indexes' = IndexesAfter(indexes, req.rt.store)
    /\ UNCHANGED <<hdr, ret>>

HandleHeadManifest ==
    \E name \in Names, reference \in References, fail \in Failures :
        Served(Request("HeadManifest", name, reference, "", "", 0, "", fail, "",
                       HeadManifest(name, reference, fail)))

HandleGetManifest ==
    \E name \in Names, reference \in References, fail \in Failures :
        Served(Request("GetManifest", name, reference, "", "", 0, "", fail, "",
                       GetManifest(name, reference, fail)))

HandlePutManifest ==
    \E name \in Names, reference \in References, body \in ManifestBodies,
       contenttype \in ContentTypes, fail \in Failures :
        Served(Request("PutManifest", name, reference, contenttype, body, 0, "", fail, "",
                       PutManifest(name, reference, body, contenttype, fail)))

HandleDeleteManifest ==
    \E name \in Names, reference \in References, fail \in Failures :
        Served(Request("DeleteManifest", name, reference, "", "", 0, "", fail, "",
                       DeleteManifest(name, reference, fail)))

HandleGetGlobalIndex ==
    \E search \in Searches, fail \in Failures :
        Served(Request("GetGlobalIndex", "", "", "", "", 0, search, fail, "",
                       GetGlobalIndex(search, fail)))

HandleGetIndex ==
    \E name \in Names, search \in Searches, fail \in Failures :
        Served(Request("GetIndex", name, "", "", "", 0, search, fail, "",
                       GetIndex(name, search, fail)))

HandleDeleteIndex ==
    \E name \in Names, fail \in Failures :
        Served(Request("DeleteIndex", name, "", "", "", 0, "", fail, "",
                       DeleteIndex(name, fail)))

StoreModes == {"direct", "redirect"}

HandleHeadBlob ==
    \E name \in Names, digeststr \in DigestStrs, fail \in Failures :
        Served(Request("HeadBlob", name, digeststr, "", "", 0, "", fail, "",
                       HeadBlob(name, digeststr, fail)))

HandlePutBlob ==
    \E name \in Names, digeststr \in DigestStrs, contentType \in ContentTypes,
       contentLength \in ContentLengths, fail \in Failures, mode \in StoreModes :
        Served(Request("PutBlob", name, digeststr, contentType, "r.Body", contentLength,
                       "", fail, mode,
                       PutBlob(name, digeststr, contentType, contentLength, fail, mode)))

HandleGetBlob ==
    \E name \in Names, digeststr \in DigestStrs, fail \in Failures, mode \in StoreModes :
        Served(Request("GetBlob", name, digeststr, "", "", 0, "", fail, mode,
                       GetBlob(name, digeststr, fail, mode)))

Next ==
    \/ HandleHeadManifest
    \/ HandleGetManifest
    \/ HandlePutManifest
    \/ HandleDeleteManifest
    \/ HandleGetGlobalIndex
    \/ HandleGetIndex
    \/ HandleDeleteIndex
    \/ HandleHeadBlob
    \/ HandlePutBlob
    \/ HandleGetBlob

Spec == Init /\ [][Next]_vars

-----------------------------------------------------------------------------
(* ParseAndCheckContentRange *)

\* header values are strings over these characters
Chars == {"0", "1", "7", "8", "-", "+", "x"}
MaxRangeLen == 3
MaxLengthLen == 2
Strs(n) == UNION {[1..k -> Chars] : k \in 0..n}

\* the width of the integers: int64 in the code, scaled down here so that the
\* largest and the smallest integer are one-digit headers
IntBits == 4
MaxInt == 2 ^ (IntBits - 1) - 1
MinInt == -(2 ^ (IntBits - 1))
\* two's-complement wrap-around of an arithmetic result
Wrap(x) == ((x - MinInt) % (2 ^ IntBits)) + MinInt

IsDigit(c) == c \in {"0", "1", "2", "3", "4", "5", "6", "7", "8", "9"}
DigitVal(c) ==
    CASE c = "0" -> 0 [] c = "1" -> 1 [] c = "2" -> 2 [] c = "3" -> 3 [] c = "4" -> 4
      [] c = "5" -> 5 [] c = "6" -> 6 [] c = "7" -> 7 [] c = "8" -> 8 [] c = "9" -> 9

RECURSIVE Magnitude(_)
Magnitude(ds) ==
    IF ds = <<>> THEN 0
    ELSE 10 * Magnitude(SubSeq(ds, 1, Len(ds) - 1)) + DigitVal(ds[Len(ds)])

\* strconv.ParseInt(s, 10, 64): an optional sign, then one or more decimal
\* digits, of a value the integer width holds
ParseInt(s) ==
    LET signed == s # <<>> /\ s[1] \in {"+", "-"}
        neg == s # <<>> /\ s[1] = "-"
        ds == IF signed THEN Tail(s) ELSE s
        syntax == ds # <<>> /\ \A i \in 1..Len(ds) : IsDigit(ds[i])
        un == IF syntax THEN Magnitude(ds) ELSE 0
        inrange == IF neg THEN un <= -MinInt ELSE un <= MaxInt
    IN IF syntax /\ inrange THEN [err |-> Nil, val |-> IF neg THEN -un ELSE un]
       ELSE [err |-> [kind |-> "NumError", status |-> 0,
                      detail |-> IF syntax THEN "value out of range"
                                 ELSE "invalid syntax"],
             val |-> 0]

\* strings.Split(s, "-")
RECURSIVE Split(_)
Split(s) ==
    IF \A i \in 1..Len(s) : s[i] # "-" THEN <<s>>
    ELSE LET i == CHOOSE j \in 1..Len(s) :
                      s[j] = "-" /\ \A k \in 1..(j - 1) : s[k] # "-"
         IN <<SubSeq(s, 1, i - 1)>> \o Split(SubSeq(s, i + 1, Len(s)))

Invalid(reason) == [called |-> TRUE, start |-> -1, end |-> -1, reason |-> reason]

ParseAndCheckContentRange(header) ==
    LET contentRange == header.range
        contentLength == header.length
        ranges == Split(contentRange)
    IN IF Len(ranges) # 2 THEN Invalid("invalid format")
       ELSE LET start == ParseInt(ranges[1])
                end == ParseInt(ranges[2])
                contentLen == ParseInt(contentLength)
            IN IF start.err # Nil THEN Invalid("invalid start")
               ELSE IF end.err # Nil THEN Invalid("invalid end")
               ELSE IF start.val > end.val THEN Invalid("start > end")
               ELSE IF contentLen.err # Nil THEN Invalid("invalid content length")
               ELSE IF contentLen.val # Wrap(Wrap(end.val - start.val) + 1)
                    THEN Invalid("content length != (end-start)+1")
               ELSE [called |-> TRUE, start |-> start.val, end |-> end.val,
                     reason |-> ""]

InitRange ==
    /\ manifests = [k \in Names \X References |-> NoManifest]
    /\ blobs = [k \in Names \X DigestStrs |-> NoBlob]
    /\ indexes = {}
    /\ last = Request("none", "", "", "", "", 0, "", Nil, "", NewRun)
    /\ acked = [k \in Names \X References |-> NoAck]
    /\ hdr \in {[range |-> r, length |-> l] : r \in Strs(MaxRangeLen), l \in Strs(MaxLengthLen)}
    /\ ret = NotCalled

CallParseAndCheckContentRange ==
    /\ ~ret.called
    /\ ret' = ParseAndCheckContentRange(hdr)
    /\ UNCHANGED <<manifests, blobs, indexes, last, acked, hdr>>

NextRange == CallParseAndCheckContentRange

SpecRange == InitRange /\ [][NextRange]_vars

-----------------------------------------------------------------------------
(* Properties *)

resp == last.rt
OnlyCalled(responder) == resp.calls = <<responder>>
\* the response carries exactly one body part, the error err as the responder shows it
ErrorBody(err) ==
    /\ Len(resp.body) = 1
    /\ resp.body[1].env = "error"
    /\ resp.body[1].data = err
\* the response carries exactly one body part, the success envelope of data
OkBody(data) ==
    /\ Len(resp.body) = 1
    /\ resp.body[1].env = "ok"
    /\ resp.body[1].data = data
StoreVerdict == IF resp.store = <<>> THEN "no call" ELSE resp.store[1].verdict
BlobHandlers == {"HeadBlob", "GetBlob", "PutBlob"}

\* C1: a blob request (HEAD, GET, PUT) whose {digest} is malformed is answered by
\* the error responder alone, with DigestInvalid and status 400, and the handler
\* makes no Store call.
C1_MalformedDigestRejected ==
    (last.handler \in BlobHandlers /\ last.key \notin WellFormedDigests) =>
        /\ OnlyCalled("ResponseError")
        /\ resp.status = StatusBadRequest
        /\ ErrorBody(NewDigestInvalidError(last.key))
        /\ resp.store = <<>>

C1_Witness ==
    /\ last.handler = "GetBlob"
    /\ last.key = "sha256:zz"
    /\ resp.status = StatusBadRequest

ValidPutBlob ==
    /\ last.handler = "PutBlob"
    /\ last.key \in WellFormedDigests
    /\ last.ctype # ""
OnePutBlobCall ==
    /\ Len(resp.store) = 1
    /\ resp.store[1].op = "PutBlob"
    /\ resp.store[1].name = last.name
    /\ resp.store[1].key = last.key
    /\ resp.store[1].ctype = last.ctype
\* the RedirectLocation of the Store's result for the request
PutBlobRedirect ==
    Store_PutBlob(last.name, last.key, NoContent, last.fail, last.mode).RedirectLocation
RedirectPath ==
    /\ resp.status = StatusTemporaryRedirect
    /\ resp.location = PutBlobRedirect
    /\ resp.reader = "nobody"
    /\ resp.body = <<>>
DirectPath ==
    /\ resp.status = StatusCreated
    /\ resp.location = ""
    /\ resp.body = <<>>

\* C2 as stated: PutBlob with a valid digest and a non-empty Content-Type makes
\* exactly one Store.PutBlob call, then answers 307 with Location (not reading the
\* body itself) if the Store's result carries a RedirectLocation, and 201 without
\* Location otherwise.
C2_AsStated ==
    ValidPutBlob =>
        /\ OnePutBlobCall
        /\ IF PutBlobRedirect # "" THEN RedirectPath ELSE DirectPath

\* C2 amended: as C2, for a Store.PutBlob call that returns no error; when the call
\* returns an error the handler answers through the error responder alone, with
\* neither 307 nor 201 and no Location header.
C2_PutBlobDuality ==
    ValidPutBlob =>
        /\ OnePutBlobCall
        /\ IF last.fail # Nil
           THEN /\ OnlyCalled("ResponseError")
                /\ resp.status \notin {StatusTemporaryRedirect, StatusCreated}
                /\ resp.location = ""
           ELSE /\ OnlyCalled("WriteHeader")
                /\ IF PutBlobRedirect # "" THEN RedirectPath ELSE DirectPath

C2_Witness ==
    /\ ValidPutBlob
    /\ resp.status = StatusTemporaryRedirect
    /\ resp.location = RedirectURL

\* C3: when Store.GetGlobalIndex reports not-found, the GetGlobalIndex handler
\* answers 200 with the empty index as the whole body, and the error responder is
\* not called.
C3_GlobalIndexNotFoundIsEmpty ==
    (last.handler = "GetGlobalIndex" /\ StoreVerdict = S3NotFound.kind) =>
        /\ resp.status = StatusOK
        /\ OkBody(EmptyIndex)
        /\ OnlyCalled("ResponseOK")

\* the headers as the claim reads them, in unbounded arithmetic
Parts == Split(hdr.range)
StartOf == ParseInt(Parts[1])
EndOf == ParseInt(Parts[2])
LengthOf == ParseInt(hdr.length)
FirstFailure ==
    IF Len(Parts) # 2 THEN "invalid format"
    ELSE IF StartOf.err # Nil THEN "invalid start"
    ELSE IF EndOf.err # Nil THEN "invalid end"
    ELSE IF StartOf.val > EndOf.val THEN "start > end"
    ELSE IF LengthOf.err # Nil THEN "invalid content length"
    ELSE IF LengthOf.val # EndOf.val - StartOf.val + 1
         THEN "content length != (end-start)+1"
    ELSE ""

\* C4: ParseAndCheckContentRange returns (start, end) exactly when Content-Range
\* splits on '-' into two integers start <= end and Content-Length is an integer
\* equal to end-start+1, and otherwise fails with the reason of the first failing
\* check.
C4_AcceptsExactlyConsistentRanges ==
    ret.called =>
        IF FirstFailure = ""
        THEN ret.reason = "" /\ ret.start = StartOf.val /\ ret.end = EndOf.val
        ELSE ret.reason = FirstFailure

WriteHandlers == {"PutBlob", "PutManifest"}
\* C5: a PutBlob or PutManifest request with an empty Content-Type makes no Store
\* call and is answered 400, with ContentTypeInvalid when the rest of the request
\* is valid.
C5_EmptyContentTypeRejected ==
    (last.handler \in WriteHandlers /\ last.ctype = "") =>
        /\ resp.store = <<>>
        /\ resp.status = StatusBadRequest
        /\ (\/ last.handler = "PutBlob" /\ last.key \in WellFormedDigests
            \/ last.handler = "PutManifest" /\ Decode(last.body).err = Nil)
           => ErrorBody(NewContentTypeInvalidError("empty"))

\* C6: HeadManifest writes no body and calls no error responder, whether the Store
\* says present, absent, or reports the object missing through a not-found error;
\* it answers 200 if the manifest is present and 404 otherwise.
C6_HeadManifestStatusOnly ==
    (last.handler = "HeadManifest" /\ last.fail \in {Nil, S3NotFound}) =>
        /\ resp.body = <<>>
        /\ OnlyCalled("WriteHeader")
        /\ resp.status = IF last.fail = Nil /\ manifests[<<last.name, last.key>>].present
                       THEN StatusOK ELSE StatusNotFound

IndexHandlers == {"GetIndex", "DeleteIndex"}
\* C7: on GetIndex and DeleteIndex a Store not-found is answered IndexUnknown
\* (404); any other Store error reaches the error responder as the Store gave it;
\* on success GetIndex answers 200 with the Store's index and DeleteIndex answers
\* 200 with "ok" (and the repository's index is gone).
C7_RepositoryIndex ==
    last.handler \in IndexHandlers =>
        /\ Len(resp.store) = 1
        /\ resp.store[1].name = last.name
        /\ IF StoreVerdict = S3NotFound.kind
           THEN /\ OnlyCalled("ResponseError")
                /\ resp.status = StatusNotFound
                /\ ErrorBody(NewIndexUnknownError(last.name))
           ELSE IF StoreVerdict # Nil.kind
           THEN /\ StoreVerdict = last.fail.kind
                /\ resp = ResponseError([NewRun EXCEPT !.store = resp.store], last.fail)
           ELSE /\ OnlyCalled("ResponseOK")
                /\ resp.status = StatusOK
                /\ IF last.handler = "GetIndex"
                   THEN OkBody(Store_GetIndex(last.name, last.search, Nil).index)
                   ELSE OkBody("ok") /\ last.name \notin indexes

C7_Witness ==
    /\ last.handler = "DeleteIndex"
    /\ resp.status = StatusOK
    /\ \E k \in DOMAIN manifests : manifests[k].present

C7_WitnessNotFound ==
    /\ last.handler = "GetIndex"
    /\ resp.status = StatusNotFound

ManifestReads == {"HeadManifest", "GetManifest"}
\* the manifest and content type the Store holds are those of the acknowledged PUT
HoldsAcked(k) ==
    manifests[k] = [ctype |-> acked[k].ctype,
                    manifest |-> Decode(acked[k].body).manifest,
                    present |-> TRUE]
\* C8: after a PutManifest of body B and content type T answered 201, and until a
\* later PUT or DELETE of that reference succeeds, the Store holds B's manifest
\* with T and a GetManifest the Store does not fail answers 200 with B's manifest;
\* HeadManifest and GetManifest leave the Store's manifests as they were.
C8_ManifestRoundTrip ==
    /\ [](\A k \in DOMAIN acked : acked[k].live => HoldsAcked(k))
    /\ []((/\ last.handler = "GetManifest"
           /\ last.fail = Nil
           /\ acked[<<last.name, last.key>>].live)
          => /\ resp.status = StatusOK
             /\ OnlyCalled("ResponseOK")
             /\ OkBody(Decode(acked[<<last.name, last.key>>].body).manifest))
    /\ [][last'.handler \in ManifestReads => manifests' = manifests]_vars

C8_Witness ==
    /\ last.handler = "GetManifest"
    /\ resp.status = StatusOK
    /\ acked[<<last.name, last.key>>].live
    /\ acked[<<last.name, last.key>>].ctype = "application/json"
    /\ \E k \in DOMAIN acked : k # <<last.name, last.key>> /\ acked[k].live
                                /\ acked[k].body # acked[<<last.name, last.key>>].body

\* C9: every handler invocation produces exactly one response: one call of a
\* success writer (ResponseOK, WriteHeader) or one call of the error responder.
C9_ExactlyOneResponse ==
    last.handler # "none" => Len(resp.calls) = 1

\* C10: a successful ParseAndCheckContentRange returns 0 <= start <= end for a
\* declared Content-Length >= 1 that is the true length end-start+1; a failed one
\* returns (-1, -1).
C10_AcceptedRangeHasDeclaredLength ==
    ret.called =>
        IF ret.reason = ""
        THEN /\ 0 <= ret.start
             /\ ret.start <= ret.end
             /\ LengthOf.val >= 1
             /\ LengthOf.val = ret.end - ret.start + 1
        ELSE ret.start = -1 /\ ret.end = -1

====
